---- MODULE Spec2Model ----
(***************************************************************************)
(* Expense store (MemStorage, DatabaseStorage) and the analytics routes of *)
(* the expense-tracking backend.                                           *)
(*                                                                         *)
(* Time.  A JavaScript Date is an instant read through local-time getters. *)
(* The model writes an instant in local coordinates, <<day, ms>>: the      *)
(* number of the local calendar day counted from 1970-01-01 and the        *)
(* millisecond of that day.  The host time zone is a fixed offset (no      *)
(* daylight-saving change), so every local day has 24 hours.               *)
(*                                                                         *)
(* Amounts.  An amount is a decimal string with two decimals; the model    *)
(* writes it as its number of hundredths ("15.50" is 1550).  A JavaScript  *)
(* number is an IEEE-754 double: sign, 53-bit significand, exponent, with  *)
(* round-to-nearest-even after every operation.                            *)
(***************************************************************************)
EXTENDS Integers, Sequences, FiniteSets, TLC

(***************************************************************************)
(* Calendar arithmetic of the Date object (ECMAScript MakeDay and the      *)
(* local getters).  Months are 0-based, as in JavaScript.                  *)
(***************************************************************************)
MsPerDay == 24 * 60 * 60 * 1000

IsLeapYear(y) == (y % 4 = 0) /\ ((y % 100 # 0) \/ (y % 400 = 0))

DaysInYear(y) == IF IsLeapYear(y) THEN 366 ELSE 365

\* Day number of January 1 of year y.
DayFromYear(y) ==
    365 * (y - 1970) + ((y - 1969) \div 4) - ((y - 1901) \div 100)
        + ((y - 1601) \div 400)

\* Days before the first day of month m (0-based) in year y.
DaysBeforeMonth(y, m) ==
    LET cum == <<0, 31, 59, 90, 120, 151, 181, 212, 243, 273, 304, 334>>
    IN  cum[m + 1] + (IF m >= 2 /\ IsLeapYear(y) THEN 1 ELSE 0)

\* MakeDay(year, month, date): month and date may lie outside their ranges
\* and carry into the neighbouring months and years.
MakeDay(y, m, d) ==
    LET ym == y + (m \div 12)
        mn == m % 12
    IN  DayFromYear(ym) + DaysBeforeMonth(ym, mn) + d - 1

YearFromDay(day) ==
    LET est == 1970 + (day \div 365)
    IN  CHOOSE y \in (est - 2)..(est + 1) :
            DayFromYear(y) <= day /\ day < DayFromYear(y + 1)

MonthFromDay(day) ==
    LET y == YearFromDay(day)
        n == day - DayFromYear(y)
    IN  CHOOSE m \in 0..11 :
            /\ DaysBeforeMonth(y, m) <= n
            /\ (m = 11 \/ n < DaysBeforeMonth(y, m + 1))

DateFromDay(day) ==
    LET y == YearFromDay(day)
    IN  day - DayFromYear(y) - DaysBeforeMonth(y, MonthFromDay(day)) + 1

\* 1970-01-01 was a Thursday; 0 is Sunday.
WeekDay(day) == (day + 4) % 7

\* An instant and the Date methods the code calls on it.
Instant(day, ms) == <<day, ms>>
getFullYear(t) == YearFromDay(t[1])
getMonth(t) == MonthFromDay(t[1])
getDate(t) == DateFromDay(t[1])
getDay(t) == WeekDay(t[1])
setDate(t, d) == <<MakeDay(getFullYear(t), getMonth(t), d), t[2]>>
setMonth(t, m) == <<MakeDay(getFullYear(t), m, getDate(t)), t[2]>>
setFullYear(t, y) == <<MakeDay(y, getMonth(t), getDate(t)), t[2]>>
setHours(t, h, mi, s, ms) == <<t[1], ((h * 60 + mi) * 60 + s) * 1000 + ms>>
NewDate(y, m, d, h, mi, s, ms) ==
    <<MakeDay(y, m, d), ((h * 60 + mi) * 60 + s) * 1000 + ms>>
\* t - n * 24 * 60 * 60 * 1000 on the time value.
MinusDays(t, n) == <<t[1] - n, t[2]>>
toDateString(t) == <<getFullYear(t), getMonth(t), getDate(t), getDay(t)>>

\* Order of two instants (the sign of a.getTime() - b.getTime()).
TimeLE(a, b) == a[1] < b[1] \/ (a[1] = b[1] /\ a[2] <= b[2])
TimeLT(a, b) == a[1] < b[1] \/ (a[1] = b[1] /\ a[2] < b[2])

(***************************************************************************)
(* Natural numbers of any size, as little-endian sequences of limbs in     *)
(* base 2^15 without leading zero limbs (<<>> is 0).  They carry the       *)
(* 53-bit significands of the doubles.                                     *)
(***************************************************************************)
LimbBase == 2 ^ 15
LimbBits == 14 + 1

Pow2(n) == 2 ^ n

RECURSIVE BNorm(_)
BNorm(a) ==
    IF a = <<>> THEN <<>>
    ELSE IF a[Len(a)] = 0 THEN BNorm(SubSeq(a, 1, Len(a) - 1))
    ELSE a

RECURSIVE BFromInt(_)
BFromInt(n) ==
    IF n = 0 THEN <<>> ELSE <<n % LimbBase>> \o BFromInt(n \div LimbBase)

RECURSIVE BToInt(_)
BToInt(a) ==
    IF a = <<>> THEN 0 ELSE Head(a) + LimbBase * BToInt(Tail(a))

RECURSIVE BAddC(_, _, _)
BAddC(a, b, c) ==
    IF a = <<>> /\ b = <<>> THEN (IF c = 0 THEN <<>> ELSE <<c>>)
    ELSE LET x == IF a = <<>> THEN 0 ELSE Head(a)
             y == IF b = <<>> THEN 0 ELSE Head(b)
             s == x + y + c
         IN  <<s % LimbBase>>
                 \o BAddC(IF a = <<>> THEN <<>> ELSE Tail(a),
                          IF b = <<>> THEN <<>> ELSE Tail(b),
                          s \div LimbBase)

BAdd(a, b) == BAddC(a, b, 0)

\* a - b - c for a >= b + c, before normalisation.
RECURSIVE BSubC(_, _, _)
BSubC(a, b, c) ==
    IF a = <<>> THEN <<>>
    ELSE LET y == IF b = <<>> THEN 0 ELSE Head(b)
             s == Head(a) - y - c
         IN  <<s % LimbBase>>
                 \o BSubC(Tail(a), IF b = <<>> THEN <<>> ELSE Tail(b),
                          IF s < 0 THEN 1 ELSE 0)

BSub(a, b) == BNorm(BSubC(a, b, 0))

\* -1, 0, 1 as a < b, a = b, a > b.
RECURSIVE BCmpFrom(_, _, _)
BCmpFrom(a, b, i) ==
    IF i = 0 THEN 0
    ELSE IF a[i] < b[i] THEN -1
    ELSE IF a[i] > b[i] THEN 1
    ELSE BCmpFrom(a, b, i - 1)

BCmp(a, b) ==
    IF Len(a) < Len(b) THEN -1
    ELSE IF Len(a) > Len(b) THEN 1
    ELSE BCmpFrom(a, b, Len(a))

\* a * k for 0 <= k < 2^15.
RECURSIVE BMulSmallC(_, _, _)
BMulSmallC(a, k, c) ==
    IF a = <<>> THEN (IF c = 0 THEN <<>> ELSE <<c>>)
    ELSE LET s == Head(a) * k + c
         IN  <<s % LimbBase>> \o BMulSmallC(Tail(a), k, s \div LimbBase)

BMulSmall(a, k) == BNorm(BMulSmallC(a, k, 0))

\* <<a \div k, a % k>> for 0 < k < 2^15, from the top limb down.
RECURSIVE BDivSmallFrom(_, _, _, _)
BDivSmallFrom(a, k, i, r) ==
    IF i = 0 THEN <<<<>>, r>>
    ELSE LET cur == r * LimbBase + a[i]
             rest == BDivSmallFrom(a, k, i - 1, cur % k)
         IN  <<rest[1] \o <<cur \div k>>, rest[2]>>

BDivSmall(a, k) ==
    LET qr == BDivSmallFrom(a, k, Len(a), 0)
    IN  <<BNorm(qr[1]), qr[2]>>

Zeros(n) == [i \in 1..n |-> 0]

BShl(a, n) ==
    IF a = <<>> THEN <<>>
    ELSE Zeros(n \div LimbBits) \o BMulSmall(a, Pow2(n % LimbBits))

BShr(a, n) ==
    LET w == n \div LimbBits
    IN  IF w >= Len(a) THEN <<>>
        ELSE BDivSmall(SubSeq(a, w + 1, Len(a)), Pow2(n % LimbBits))[1]

RECURSIVE IntBitLen(_)
IntBitLen(n) == IF n = 0 THEN 0 ELSE 1 + IntBitLen(n \div 2)

BBitLen(a) ==
    IF a = <<>> THEN 0 ELSE LimbBits * (Len(a) - 1) + IntBitLen(a[Len(a)])

BIsOdd(a) == a # <<>> /\ a[1] % 2 = 1

\* Whether a % 2^n is not 0.
BLowNonZero(a, n) == BShl(BShr(a, n), n) # a

\* <<n \div d, n % d>> by binary long division, one limb of n after the other
\* from the top: q and r are the quotient and remainder of the bits of n
\* already read, k the number of bits of the limb still to read.
RECURSIVE BDivBits(_, _, _, _, _)
BDivStep(limb, d, k, q, r2, ge) ==
    BDivBits(limb, d, k - 1,
             BNorm(BAddC(q, q, IF ge THEN 1 ELSE 0)),
             IF ge THEN BSub(r2, d) ELSE r2)

BDivBit(limb, d, k, q, r2) == BDivStep(limb, d, k, q, r2, BCmp(r2, d) >= 0)

BDivBits(limb, d, k, q, r) ==
    IF k = 0 THEN <<q, r>>
    ELSE \* the loop's invariant: the remainder stays below the divisor
         IF BCmp(r, d) < 0 /\ Len(q) >= 0
         THEN BDivBit(limb, d, k, q,
                      BNorm(BAddC(r, r, (limb \div Pow2(k - 1)) % 2)))
         ELSE <<q, r>>

RECURSIVE BDivModFrom(_, _, _, _, _)
BDivModFrom(n, d, i, q, r) ==
    IF i = 0 THEN <<q, r>>
    ELSE LET qr == BDivBits(n[i], d, LimbBits, q, r)
         IN  IF Len(qr) = 2 THEN BDivModFrom(n, d, i - 1, qr[1], qr[2])
             ELSE qr

BDivMod(n, d) == BDivModFrom(n, d, Len(n), <<>>, <<>>)

(***************************************************************************)
(* IEEE-754 doubles: [neg, m, e] is (-1)^neg * m * 2^e with m of exactly   *)
(* 53 bits, or m = <<>> for zero.  The amounts of the model stay far from  *)
(* the subnormal and the overflow range, and -0 is not told from 0 (JSON   *)
(* writes both as 0).                                                      *)
(***************************************************************************)
Precision == 52 + 1

FZero == [neg |-> FALSE, m |-> <<>>, e |-> 0]

FIsZero(x) == x.m = <<>>

\* [neg, q, e] with a significand q of 53 bits, or of 54 bits when the
\* rounding carried into a new bit (q is then 2^53).
FRenorm(neg, q, e) ==
    IF BBitLen(q) > Precision
    THEN [neg |-> neg, m |-> BShr(q, 1), e |-> e + 1]
    ELSE [neg |-> neg, m |-> q, e |-> e]

\* q rounded to nearest, ties to even: guard is the first bit dropped and
\* rest tells whether any lower bit is set.
FRoundBits(neg, q, guard, rest, e) ==
    FRenorm(neg, IF guard /\ (rest \/ BIsOdd(q)) THEN BAddC(q, <<>>, 1) ELSE q,
            e)

\* The double nearest to (-1)^neg * (big + s) * 2^e, 0 <= s < 1, s > 0 iff
\* sticky, for big of len bits.
FRoundLen(neg, big, e, sticky, len) ==
    IF big = <<>> THEN FZero
    ELSE IF len <= Precision
         THEN [neg |-> neg, m |-> BShl(big, Precision - len),
               e |-> e - (Precision - len)]
    ELSE FRoundBits(neg, BShr(big, len - Precision),
                    BIsOdd(BShr(big, len - Precision - 1)),
                    sticky \/ BLowNonZero(big, len - Precision - 1),
                    e + (len - Precision))

FRound(neg, big, e, sticky) == FRoundLen(neg, big, e, sticky, BBitLen(big))

FFromInt(n) == FRound(n < 0, BFromInt(IF n < 0 THEN 0 - n ELSE n), 0, FALSE)

FNeg(x) == IF FIsZero(x) THEN x ELSE [x EXCEPT !.neg = ~x.neg]

\* The sum of (-1)^xneg * a * 2^e and (-1)^yneg * b * 2^e, where c compares
\* a with b.
FAddAligned(xneg, a, yneg, b, e, c) ==
    IF xneg # yneg /\ c = 0 THEN FZero
    ELSE FRound(IF xneg = yneg \/ c > 0 THEN xneg ELSE yneg,
                IF xneg = yneg THEN BAdd(a, b)
                ELSE IF c > 0 THEN BSub(a, b) ELSE BSub(b, a),
                e, FALSE)

FAddAt(x, y, e) ==
    FAddAligned(x.neg, BShl(x.m, x.e - e), y.neg, BShl(y.m, y.e - e), e,
                BCmp(BShl(x.m, x.e - e), BShl(y.m, y.e - e)))

\* x + y
FAdd(x, y) ==
    IF FIsZero(x) THEN y
    ELSE IF FIsZero(y) THEN x
    ELSE FAddAt(x, y, IF x.e < y.e THEN x.e ELSE y.e)

\* x - y
FSub(x, y) == FAdd(x, FNeg(y))

\* x * k for an integer 0 < k < 2^15
FMulSmall(x, k) == FRound(x.neg, BMulSmall(x.m, k), x.e, FALSE)

FRoundQuotient(neg, qr, e, zero) == FRound(neg, qr[1], e, qr[2] # zero)

\* x / k for an integer 0 < k < 2^15
FDivSmall(x, k) ==
    FRoundQuotient(x.neg, BDivSmall(BShl(x.m, 2 * LimbBits), k),
                   x.e - 2 * LimbBits, 0)

\* x / y for y # 0
FDiv(x, y) ==
    IF FIsZero(x) THEN FZero
    ELSE FRoundQuotient(x.neg # y.neg,
                        BDivMod(BShl(x.m, Precision + 3), y.m),
                        x.e - y.e - (Precision + 3), <<>>)

\* x > 0
FPositive(x) == ~FIsZero(x) /\ ~x.neg

\* |x| < |y| for x and y other than 0: the significands have the same
\* length, so the exponents decide first.
FMagLess(x, y) == x.e < y.e \/ (x.e = y.e /\ BCmp(x.m, y.m) < 0)

\* x < y
FLess(x, y) ==
    IF FIsZero(x) THEN FPositive(y)
    ELSE IF FIsZero(y) THEN x.neg
    ELSE IF x.neg # y.neg THEN x.neg
    ELSE IF x.neg THEN FMagLess(y, x)
    ELSE FMagLess(x, y)

\* floor((m + 2^(s-1)) / 2^s): m * 2^(-s) rounded to the nearest integer,
\* ties upwards.
RoundHalfUp(m, s) == BToInt(BShr(BAdd(m, BShl(<<1>>, s - 1)), s))

\* Whether m * 2^(-s) lies halfway between two integers.
IsTie(m, s) == BIsOdd(BShr(m, s - 1)) /\ ~BLowNonZero(m, s - 1)

\* Math.round(x), as an integer: floor(x + 1/2), computed exactly.
MathRound(x) ==
    IF FIsZero(x) THEN 0
    ELSE IF x.e >= 0 THEN
        (IF x.neg THEN -1 ELSE 1) * BToInt(BShl(x.m, x.e))
    ELSE IF ~x.neg THEN RoundHalfUp(x.m, 0 - x.e)
    ELSE IF IsTie(x.m, 0 - x.e) THEN 1 - RoundHalfUp(x.m, 0 - x.e)
    ELSE 0 - RoundHalfUp(x.m, 0 - x.e)

\* parseFloat of a decimal string with two decimals, given in hundredths:
\* the double nearest to cents / 100.
parseFloat(cents) == FDivSmall(FFromInt(cents), 100)

(***************************************************************************)
(* Bounds and the inputs the requests are drawn from.                      *)
(***************************************************************************)
\* How many expenses are created after construction.
MaxCreates == 1

MOCK_USER_ID == 1

\* The instant of construction, new Date() of initializeSampleData:
\* Sunday 2024-03-31 12:00:00.000.
NowSet == {NewDate(2024, 2, 31, 12, 0, 0, 0)}

LastInstantOf2023 == NewDate(2023, 11, 31, 23, 59, 59, 999)
FirstInstantOf2024 == NewDate(2024, 0, 1, 0, 0, 0, 0)

UserIds == {MOCK_USER_ID, 2}

\* InsertExpense payloads of createExpense.  Category 9 does not exist.
CreateInputs ==
    { [userId |-> 1, amount |-> 5, categoryId |-> 1,
       date |-> NewDate(2024, 2, 30, 18, 0, 0, 0)],
      [userId |-> 1, amount |-> -500, categoryId |-> 2,
       date |-> LastInstantOf2023],
      [userId |-> 2, amount |-> 20, categoryId |-> 1,
       date |-> FirstInstantOf2024],
      [userId |-> 1, amount |-> 20, categoryId |-> 9,
       date |-> NewDate(2024, 2, 30, 0, 0, 0, 0)] }

\* Partial<InsertExpense> payloads of updateExpense: fields names the keys
\* the payload holds, and only those are read.
Payload(fields, userId, amount, categoryId, date) ==
    [fields |-> fields, userId |-> userId, amount |-> amount,
     categoryId |-> categoryId, date |-> date]

UpdateInputs ==
    { Payload({}, 0, 0, 0, <<0, 0>>),
      Payload({"amount"}, 0, 20, 0, <<0, 0>>),
      Payload({"date"}, 0, 0, 0, LastInstantOf2023),
      Payload({"userId"}, 2, 0, 0, <<0, 0>>) }

\* Ids of update and delete requests: a sample expense, the first created
\* expense, and an id no expense ever has.
UpdateIds == {7, 99}
DeleteIds == {2, 7, 99}

ValidPeriods == {"day", "week", "month", "year"}
Periods == ValidPeriods \cup {"quarter"}

QueryDates == {NewDate(2024, 2, 31, 12, 0, 0, 0), FirstInstantOf2024}
QueryMonths == {<<2024, 3>>, <<2024, 1>>}

\* The reference dates of the calendar runs: the first and the last instant
\* of every day within EdgeRadius days of the turn of a month.  The turns
\* are those into 2024, into March of a leap and of a common year, and
\* into April 2024.
EdgeRadius == 2

MonthTurns ==
    { MakeDay(2024, 0, 1), MakeDay(2024, 2, 1), MakeDay(2023, 2, 1),
      MakeDay(2024, 3, 1) }

CalendarDays ==
    UNION { (t - EdgeRadius) .. (t + EdgeRadius) : t \in MonthTurns }

CalendarDates == CalendarDays \X {0, MsPerDay - 1}

\* The reference dates of the summaries of the calendar runs.
SummaryDates == CalendarDays \X {0}

CalendarMonths == (2023 .. 2025) \X (1 .. 12)

\* createExpense payloads of the calendar runs: expenses at the last instant
\* before and the first instant of a week, a month and a year.
EdgeInstants ==
    { NewDate(2023, 11, 30, 23, 59, 59, 999),
      NewDate(2023, 11, 31, 23, 59, 59, 999),
      NewDate(2024, 0, 1, 0, 0, 0, 0),
      NewDate(2024, 1, 29, 23, 59, 59, 999),
      NewDate(2024, 2, 1, 0, 0, 0, 0),
      NewDate(2024, 2, 3, 0, 0, 0, 0),
      NewDate(2023, 1, 28, 23, 59, 59, 999) }

EdgeInputs ==
    { [userId |-> MOCK_USER_ID, amount |-> 100, categoryId |-> 1, date |-> t] :
          t \in EdgeInstants }

(***************************************************************************)
(* Results of a call: a value, undefined, or a thrown error.               *)
(***************************************************************************)
Ok(v) == [tag |-> "ok", value |-> v]
Undefined == [tag |-> "undefined"]
Thrown == [tag |-> "error"]
IsOk(r) == r.tag = "ok"

Front(s) == SubSeq(s, 1, Len(s) - 1)
Last(s) == s[Len(s)]

\* The comparators of the code's sorts and ORDER BY clauses: whether a comes
\* strictly before b.
\*   dateDesc    (a, b) => new Date(b.date).getTime() - new Date(a.date).getTime()
\*   totalDesc   (a, b) => b.total - a.total
\*   sumDesc     ORDER BY sum(cast(amount as decimal)) DESC
Before(order, a, b) ==
    CASE order = "dateDesc" -> TimeLT(b.date, a.date)
      [] order = "totalDesc" -> FLess(b.total, a.total)
      [] order = "sumDesc" -> b.sum < a.sum

\* Array.prototype.sort with a comparator: stable.
RECURSIVE InsertStable(_, _, _)
InsertStable(sorted, x, order) ==
    IF sorted = <<>> THEN <<x>>
    ELSE IF Before(order, x, Last(sorted))
         THEN InsertStable(Front(sorted), x, order) \o <<Last(sorted)>>
         ELSE sorted \o <<x>>

RECURSIVE SortStable(_, _)
SortStable(s, order) ==
    IF s = <<>> THEN <<>>
    ELSE InsertStable(SortStable(Front(s), order), Last(s), order)

\* The values of a Map keyed by id, in insertion order: ids are handed out
\* in increasing order and Map.set on a present key keeps its place.
RECURSIVE ValuesById(_, _)
ValuesById(f, ids) ==
    IF ids = {} THEN <<>>
    ELSE LET lo == CHOOSE i \in ids : \A j \in ids : i <= j
         IN  <<f[lo]>> \o ValuesById(f, ids \ {lo})

Reverse(s) == [i \in 1..Len(s) |-> s[Len(s) + 1 - i]]

(***************************************************************************)
(* The categories: the eight defaults of initializeDefaultCategories.      *)
(***************************************************************************)
categories ==
    LET names == <<"Food", "Transport", "Shopping", "Business",
                   "Entertainment", "Health", "Education", "Utilities">>
    IN  [id \in 1..Len(names) |-> [id |-> id, name |-> names[id]]]

(***************************************************************************)
(* MemStorage: the reads.                                                  *)
(***************************************************************************)
\* A week that starts on the Monday.
MemWeekStartMonday(referenceDate) ==
    setHours(setDate(referenceDate,
                     getDate(referenceDate) - getDay(referenceDate) + 1),
             0, 0, 0, 0)

MemWeekStart(referenceDate) ==
    setHours(setDate(referenceDate,
                     getDate(referenceDate) - getDay(referenceDate)),
             0, 0, 0, 0)

MemWeekEnd(referenceDate) ==
    LET weekStart == MemWeekStart(referenceDate)
    IN  setHours(setDate(weekStart, getDate(weekStart) + 6), 23, 59, 59, 999)

\* The filter of getExpensesByUserIdAndPeriod, past the userId test.
MemInPeriod(expenseDate, period, referenceDate) ==
    CASE period = "day" ->
            toDateString(expenseDate) = toDateString(referenceDate)
      [] period = "week" ->
            /\ TimeLE(MemWeekStart(referenceDate), expenseDate)
            /\ TimeLE(expenseDate, MemWeekEnd(referenceDate))
      [] period = "month" ->
            /\ getFullYear(expenseDate) = getFullYear(referenceDate)
            /\ getMonth(expenseDate) = getMonth(referenceDate)
      [] period = "year" ->
            getFullYear(expenseDate) = getFullYear(referenceDate)
      [] OTHER -> FALSE

\* The filter of getExpensesByUserIdAndMonth, past the userId test.
MemInMonth(expenseDate, year, month) ==
    getFullYear(expenseDate) = year /\ getMonth(expenseDate) = month - 1

\* categories.get(expense.categoryId)
CategoryOf(categoryId) ==
    IF categoryId \in DOMAIN categories THEN categories[categoryId]
    ELSE Undefined

\* { ...expense, category }
WithCategory(e) ==
    [id |-> e.id, userId |-> e.userId, amount |-> e.amount,
     categoryId |-> e.categoryId, date |-> e.date,
     category |-> CategoryOf(e.categoryId)]

MapWithCategory(rows) == [i \in 1..Len(rows) |-> WithCategory(rows[i])]

\* The listing left in the order of the Map, by increasing id.
MemInsertionOrder(rows) == rows

\* .sort((a, b) => new Date(b.date).getTime() - new Date(a.date).getTime())
MemSortByDate(rows) == SortStable(rows, "dateDesc")

MemGetExpensesByUserIdAndMonth(store, userId, year, month) ==
    LET Keep(e) == e.userId = userId /\ MemInMonth(e.date, year, month)
        userExpenses ==
            MemSortByDate(SelectSeq(ValuesById(store, DOMAIN store), Keep))
    IN  MapWithCategory(userExpenses)

MemGetExpensesByUserIdAndPeriod(store, userId, period, date) ==
    LET Keep(e) == e.userId = userId /\ MemInPeriod(e.date, period, date)
        userExpenses ==
            MemSortByDate(SelectSeq(ValuesById(store, DOMAIN store), Keep))
    IN  MapWithCategory(userExpenses)

\* The Map of category totals after the forEach over the first n rows, as
\* its entries in insertion order.
RECURSIVE MemAccumulate(_, _)
MemAccumulate(rows, n) ==
    IF n = 0 THEN <<>>
    ELSE LET acc == MemAccumulate(rows, n - 1)
             c == rows[n].categoryId
             x == parseFloat(rows[n].amount)
             at == {i \in 1..Len(acc) : acc[i].categoryId = c}
         IN  IF at = {}
             THEN acc \o <<[categoryId |-> c, total |-> FAdd(FZero, x)]>>
             ELSE [i \in 1..Len(acc) |->
                      IF i \in at
                      THEN [acc[i] EXCEPT !.total = FAdd(acc[i].total, x)]
                      ELSE acc[i]]

\* The totals left in the order the Map met the categories.
MemFirstSeenOrder(result) == result

\* result.sort((a, b) => b.total - a.total)
MemSortByTotal(result) == SortStable(result, "totalDesc")

\* The body shared by getCategoryTotals and getCategoryTotalsByPeriod:
\* category.name throws on a category that does not exist.
MemCategoryTotalsOf(rows) ==
    LET categoryTotals == MemAccumulate(rows, Len(rows))
        result == [i \in 1..Len(categoryTotals) |->
                      [categoryId |-> categoryTotals[i].categoryId,
                       categoryName |->
                           categories[categoryTotals[i].categoryId].name,
                       total |-> categoryTotals[i].total]]
    IN  IF \E i \in 1..Len(categoryTotals) :
               categoryTotals[i].categoryId \notin DOMAIN categories
        THEN Thrown
        ELSE Ok(MemSortByTotal(result))

MemGetCategoryTotals(store, userId, year, month) ==
    MemCategoryTotalsOf(
        MemGetExpensesByUserIdAndMonth(store, userId, year, month))

MemGetCategoryTotalsByPeriod(store, userId, period, date) ==
    MemCategoryTotalsOf(
        MemGetExpensesByUserIdAndPeriod(store, userId, period, date))

(***************************************************************************)
(* DatabaseStorage: the reads.  tieOrder is the order in which the engine  *)
(* returns rows that are equal under ORDER BY, which SQL leaves open:      *)
(* "asc" by increasing id, "desc" by decreasing id.                        *)
(***************************************************************************)
TieOrders == {"asc", "desc"}

\* A month that ends on its 30th day.
DbMonthWindowOf30Days(year, month) ==
    [startDate |-> NewDate(year, month - 1, 1, 0, 0, 0, 0),
     endDate |-> NewDate(year, month - 1, 30, 23, 59, 59, 999)]

\* startDate and endDate of getExpensesByUserIdAndMonth / getCategoryTotals.
DbMonthWindow(year, month) ==
    [startDate |-> NewDate(year, month - 1, 1, 0, 0, 0, 0),
     endDate |-> NewDate(year, month, 0, 23, 59, 59, 999)]

\* startDate and endDate of the period switch, for a valid period.
DbPeriodWindow(period, referenceDate) ==
    CASE period = "day" ->
            [startDate |-> setHours(referenceDate, 0, 0, 0, 0),
             endDate |-> setHours(referenceDate, 23, 59, 59, 999)]
      [] period = "week" ->
            LET startDate ==
                    setHours(setDate(referenceDate,
                                     getDate(referenceDate)
                                         - getDay(referenceDate)),
                             0, 0, 0, 0)
            IN  [startDate |-> startDate,
                 endDate |-> setHours(setDate(startDate,
                                              getDate(startDate) + 6),
                                      23, 59, 59, 999)]
      [] period = "month" ->
            [startDate |-> NewDate(getFullYear(referenceDate),
                                   getMonth(referenceDate), 1, 0, 0, 0, 0),
             endDate |-> NewDate(getFullYear(referenceDate),
                                 getMonth(referenceDate) + 1, 0,
                                 23, 59, 59, 999)]
      [] period = "year" ->
            [startDate |-> NewDate(getFullYear(referenceDate), 0, 1,
                                   0, 0, 0, 0),
             endDate |-> NewDate(getFullYear(referenceDate), 11, 31,
                                 23, 59, 59, 999)]

\* The rows of the table in the engine's order.
DbRows(table, tieOrder) ==
    LET byId == ValuesById(table, DOMAIN table)
    IN  IF tieOrder = "asc" THEN byId ELSE Reverse(byId)

\* from expenses inner join categories ... where userId = ? and
\* date >= startDate and date <= endDate
DbWhere(table, userId, w, tieOrder) ==
    LET Keep(e) ==
            /\ e.categoryId \in DOMAIN categories
            /\ e.userId = userId
            /\ TimeLE(w.startDate, e.date)
            /\ TimeLE(e.date, w.endDate)
    IN  SelectSeq(DbRows(table, tieOrder), Keep)

\* ... order by date desc
DbOrderByDate(rows) == SortStable(rows, "dateDesc")

DbSelectExpenses(table, userId, w, tieOrder) ==
    MapWithCategory(DbOrderByDate(DbWhere(table, userId, w, tieOrder)))

RECURSIVE SumCents(_, _)
SumCents(rows, n) ==
    IF n = 0 THEN 0 ELSE SumCents(rows, n - 1) + rows[n].amount

\* ... order by sum(cast(amount as decimal)) desc
DbOrderBySum(groups) == SortStable(groups, "sumDesc")

\* select categories.*, sum(cast(amount as decimal)) ... group by
\* categories.id ...: the sum is an exact decimal, and Number(row.total) || 0
\* is the double nearest to it.
DbSelectTotals(table, userId, w, tieOrder) ==
    LET rows == DbWhere(table, userId, w, tieOrder)
        cats == {rows[i].categoryId : i \in 1..Len(rows)}
        InCat(c) == LET Keep(e) == e.categoryId = c
                    IN  SelectSeq(rows, Keep)
        group == [c \in cats |->
                     [categoryId |-> c, sum |-> SumCents(InCat(c),
                                                         Len(InCat(c)))]]
        byId == ValuesById(group, cats)
        ordered == DbOrderBySum(IF tieOrder = "asc" THEN byId
                                ELSE Reverse(byId))
    IN  [i \in 1..Len(ordered) |->
            [categoryId |-> ordered[i].categoryId,
             categoryName |-> categories[ordered[i].categoryId].name,
             total |-> parseFloat(ordered[i].sum)]]

DbGetExpensesByUserIdAndMonth(table, userId, year, month, tieOrder) ==
    Ok(DbSelectExpenses(table, userId, DbMonthWindow(year, month), tieOrder))

\* default: throw new Error(`Invalid period: ${period}`), before the query.
DbGetExpensesByUserIdAndPeriod(table, userId, period, date, tieOrder) ==
    IF period \notin ValidPeriods THEN Thrown
    ELSE Ok(DbSelectExpenses(table, userId, DbPeriodWindow(period, date),
                             tieOrder))

DbGetCategoryTotals(table, userId, year, month, tieOrder) ==
    Ok(DbSelectTotals(table, userId, DbMonthWindow(year, month), tieOrder))

DbGetCategoryTotalsByPeriod(table, userId, period, date, tieOrder) ==
    IF period \notin ValidPeriods THEN Thrown
    ELSE Ok(DbSelectTotals(table, userId, DbPeriodWindow(period, date),
                           tieOrder))

(***************************************************************************)
(* The writes.  Each gives <<the store after the call, the call's result>>.*)
(***************************************************************************)
\* The Expense built from an InsertExpense: new Date(insertExpense.date) is
\* the instant the payload's ISO string names.
Expense(id, ins) ==
    [id |-> id, userId |-> ins.userId, amount |-> ins.amount,
     categoryId |-> ins.categoryId, date |-> ins.date]

\* A counter that is read and left as it is.
NextExpenseIdReused(id) == id

\* this.currentExpenseId++: the counter after an id was drawn.
NextExpenseId(id) == id + 1

MemCreateExpense(store, id, insertExpense) ==
    LET expense == Expense(id, insertExpense)
    IN  <<[i \in DOMAIN store \cup {id} |->
              IF i = id THEN expense ELSE store[i]],
          Ok(expense)>>

\* { ...expense, ...updateData, date: updateData.date ? ... : expense.date }
MemMerge(expense, updateData) ==
    [id |-> expense.id,
     userId |-> IF "userId" \in updateData.fields THEN updateData.userId
                ELSE expense.userId,
     amount |-> IF "amount" \in updateData.fields THEN updateData.amount
                ELSE expense.amount,
     categoryId |-> IF "categoryId" \in updateData.fields
                    THEN updateData.categoryId ELSE expense.categoryId,
     date |-> IF "date" \in updateData.fields THEN updateData.date
              ELSE expense.date]

MemUpdateExpense(store, id, updateData) ==
    IF id \notin DOMAIN store THEN <<store, Undefined>>
    ELSE LET updatedExpense == MemMerge(store[id], updateData)
         IN  <<[store EXCEPT ![id] = updatedExpense], Ok(updatedExpense)>>

\* A delete that reports the expense deleted and leaves it in the Map.
MemDeleteExpenseKept(store, id) == <<store, id \in DOMAIN store>>

\* this.expenses.delete(id)
MemDeleteExpense(store, id) ==
    <<[i \in DOMAIN store \ {id} |-> store[i]], id \in DOMAIN store>>

\* The foreign key of expenses.category_id on categories.id.
DbForeignKeyOk(categoryId) == categoryId \in DOMAIN categories

\* insert ... returning: the serial id is drawn before the row is checked.
DbCreateExpense(table, id, insertExpense) ==
    IF ~DbForeignKeyOk(insertExpense.categoryId) THEN <<table, Thrown>>
    ELSE LET expense == Expense(id, insertExpense)
         IN  <<[i \in DOMAIN table \cup {id} |->
                   IF i = id THEN expense ELSE table[i]],
               Ok(expense)>>

\* The keys updateExpense copies into updateValues, of those the model
\* keeps: userId is not among them.
DbUpdateValues(updateData) ==
    updateData.fields \cap {"amount", "categoryId", "date"}

DbMerge(row, updateData) ==
    LET set == DbUpdateValues(updateData)
    IN  [id |-> row.id,
         userId |-> row.userId,
         amount |-> IF "amount" \in set THEN updateData.amount
                    ELSE row.amount,
         categoryId |-> IF "categoryId" \in set THEN updateData.categoryId
                        ELSE row.categoryId,
         date |-> IF "date" \in set THEN updateData.date ELSE row.date]

\* db.update(expenses).set(updateValues).where(eq(expenses.id, id)): an update
\* with nothing to set is no statement ("update expenses set where ..."), and
\* the call throws.
DbUpdateExpense(table, id, updateData) ==
    IF DbUpdateValues(updateData) = {} THEN <<table, Thrown>>
    ELSE IF id \notin DOMAIN table THEN <<table, Undefined>>
    ELSE IF ~DbForeignKeyOk(DbMerge(table[id], updateData).categoryId)
         THEN <<table, Thrown>>
    ELSE LET expense == DbMerge(table[id], updateData)
         IN  <<[table EXCEPT ![id] = expense], Ok(expense)>>

\* delete ... returning; result.length > 0
DbDeleteExpense(table, id) ==
    <<[i \in DOMAIN table \ {id} |-> table[i]], id \in DOMAIN table>>

(***************************************************************************)
(* The routes.                                                             *)
(***************************************************************************)
\* PUT /api/expenses/:id
PutStatus(result) ==
    CASE result.tag = "error" -> 500
      [] result.tag = "undefined" -> 404
      [] OTHER -> 200

\* DELETE /api/expenses/:id, for a delete that did not throw
DeleteStatus(deleted) == IF deleted THEN 200 ELSE 404

\* expenses.reduce((sum, expense) => sum + parseFloat(expense.amount), 0)
RECURSIVE ReduceTotal(_, _)
ReduceTotal(rows, n) ==
    IF n = 0 THEN FZero
    ELSE FAdd(ReduceTotal(rows, n - 1), parseFloat(rows[n].amount))

\* The switch that steps prevDate back by one period.
PrevDate(period, referenceDate) ==
    CASE period = "day" ->
            setDate(referenceDate, getDate(referenceDate) - 1)
      [] period = "week" ->
            setDate(referenceDate, getDate(referenceDate) - 7)
      [] period = "month" ->
            setMonth(referenceDate, getMonth(referenceDate) - 1)
      [] period = "year" ->
            setFullYear(referenceDate, getFullYear(referenceDate) - 1)
      [] OTHER -> referenceDate

PrevMonth(currentMonth) == IF currentMonth = 1 THEN 12 ELSE currentMonth - 1

\* The year left as it is in January.
PrevYearUnchanged(currentYear, currentMonth) == currentYear

PrevYear(currentYear, currentMonth) ==
    IF currentMonth = 1 THEN currentYear - 1 ELSE currentYear

\* The guard as prevTotal !== 0.
ChangePercentUnlessZero(total, prevTotal) ==
    IF ~FIsZero(prevTotal)
    THEN FMulSmall(FDiv(FSub(total, prevTotal), prevTotal), 100)
    ELSE FZero

\* prevTotal > 0 ? ((total - prevTotal) / prevTotal) * 100 : 0
ChangePercent(total, prevTotal) ==
    IF FPositive(prevTotal)
    THEN FMulSmall(FDiv(FSub(total, prevTotal), prevTotal), 100)
    ELSE FZero

\* Math.round(changePercent * 100) / 100
RoundPercent(changePercent) ==
    FDivSmall(FFromInt(MathRound(FMulSmall(changePercent, 100))), 100)

\* The response of GET /api/analytics/monthly-summary from the two listings
\* (each a call's result); prevTotal is the handler's local.
SummaryResponse(cur, prev) ==
    IF ~IsOk(cur) \/ ~IsOk(prev) THEN [status |-> 500]
    ELSE LET total == ReduceTotal(cur.value, Len(cur.value))
             prevTotal == ReduceTotal(prev.value, Len(prev.value))
         IN  [status |-> 200,
              total |-> total,
              expenseCount |-> Len(cur.value),
              changePercent |-> RoundPercent(ChangePercent(total, prevTotal)),
              prevTotal |-> prevTotal]

(***************************************************************************)
(* State.                                                                  *)
(***************************************************************************)
VARIABLES
    expenses,          \* MemStorage.expenses: id -> Expense
    currentExpenseId,  \* MemStorage.currentExpenseId
    dbExpenses,        \* the expenses table of DatabaseStorage: id -> row
    dbExpenseSeq,      \* the next value of the table's serial id
    resp,              \* the outcome of the last call
    inFlightWrite,     \* the write request whose storage call is under way
    inFlightSummary    \* the summary request between its two listings

vars ==
    <<expenses, currentExpenseId, dbExpenses, dbExpenseSeq, resp,
      inFlightWrite, inFlightSummary>>

InFlight == <<inFlightWrite, inFlightSummary>>

\* The six sample expenses of initializeSampleData.
SampleExpenses(now) ==
    << [userId |-> 1, amount |-> 1550, categoryId |-> 1, date |-> now],
       [userId |-> 1, amount |-> 4580, categoryId |-> 1, date |-> now],
       [userId |-> 1, amount |-> 2500, categoryId |-> 2,
        date |-> MinusDays(now, 1)],
       [userId |-> 1, amount |-> 12000, categoryId |-> 3,
        date |-> MinusDays(now, 3)],
       [userId |-> 1, amount |-> 8590, categoryId |-> 8,
        date |-> MinusDays(now, 10)],
       [userId |-> 1, amount |-> 20000, categoryId |-> 4,
        date |-> MinusDays(now, 15)] >>

\* The constructor of MemStorage; the table of DatabaseStorage starts with
\* the same rows.
Init ==
    \E now \in NowSet :
        LET sample == SampleExpenses(now)
            rows == [id \in 1..Len(sample) |-> Expense(id, sample[id])]
        IN  /\ expenses = rows
            /\ currentExpenseId = Len(sample) + 1
            /\ dbExpenses = rows
            /\ dbExpenseSeq = Len(sample) + 1
            /\ resp = [op |-> "none"]
            /\ inFlightWrite = [op |-> "none"]
            /\ inFlightSummary = [op |-> "none"]

(***************************************************************************)
(* Actions: one per storage call or route.  A call is made on both         *)
(* storages, each from its own state, and resp keeps both outcomes, with   *)
(* the window a listing computed in its locals (weekStart and weekEnd of   *)
(* MemStorage, startDate and endDate of DatabaseStorage).  The caller      *)
(* makes one call at a time: it reads the outcome (Receive) before the     *)
(* next call.                                                              *)
(***************************************************************************)
Idle == resp.op = "none"

Receive ==
    /\ ~Idle
    /\ resp' = [op |-> "none"]
    /\ UNCHANGED <<expenses, currentExpenseId, dbExpenses, dbExpenseSeq>>
    /\ UNCHANGED InFlight

CreateExpense(insertExpense) ==
    /\ Idle
    /\ currentExpenseId <= Len(SampleExpenses(<<0, 0>>)) + MaxCreates
    /\ LET mem == MemCreateExpense(expenses, currentExpenseId, insertExpense)
           db == DbCreateExpense(dbExpenses, dbExpenseSeq, insertExpense)
       IN  /\ expenses' = mem[1]
           /\ currentExpenseId' = NextExpenseId(currentExpenseId)
           /\ dbExpenses' = db[1]
           /\ dbExpenseSeq' = dbExpenseSeq + 1
           /\ resp' = [op |-> "createExpense", mem |-> mem[2], db |-> db[2]]
    /\ UNCHANGED InFlight

UpdateExpense(id, updateData) ==
    /\ Idle
    /\ LET mem == MemUpdateExpense(expenses, id, updateData)
           db == DbUpdateExpense(dbExpenses, id, updateData)
       IN  /\ expenses' = mem[1]
           /\ dbExpenses' = db[1]
           /\ resp' = [op |-> "updateExpense", id |-> id,
                       mem |-> mem[2], db |-> db[2],
                       memStatus |-> PutStatus(mem[2]),
                       dbStatus |-> PutStatus(db[2])]
           /\ UNCHANGED <<currentExpenseId, dbExpenseSeq>>
    /\ UNCHANGED InFlight

DeleteExpense(id) ==
    /\ Idle
    /\ LET mem == MemDeleteExpense(expenses, id)
           db == DbDeleteExpense(dbExpenses, id)
       IN  /\ expenses' = mem[1]
           /\ dbExpenses' = db[1]
           /\ resp' = [op |-> "deleteExpense", id |-> id,
                       mem |-> mem[2], db |-> db[2],
                       memStatus |-> DeleteStatus(mem[2]),
                       dbStatus |-> DeleteStatus(db[2])]
           /\ UNCHANGED <<currentExpenseId, dbExpenseSeq>>
    /\ UNCHANGED InFlight

Stores == <<expenses, currentExpenseId, dbExpenses, dbExpenseSeq>>

GetExpensesByUserIdAndMonth(userId, year, month) ==
    /\ Idle
    /\ \E tieOrder \in TieOrders :
        resp' = [op |-> "getExpensesByUserIdAndMonth", userId |-> userId,
                 year |-> year, month |-> month,
                 mem |-> Ok(MemGetExpensesByUserIdAndMonth(
                                expenses, userId, year, month)),
                 db |-> DbGetExpensesByUserIdAndMonth(
                            dbExpenses, userId, year, month, tieOrder),
                 dbWindow |-> DbMonthWindow(year, month)]
    /\ UNCHANGED Stores
    /\ UNCHANGED InFlight

GetExpensesByUserIdAndPeriod(userId, period, date) ==
    /\ Idle
    /\ \E tieOrder \in TieOrders :
        resp' = [op |-> "getExpensesByUserIdAndPeriod", userId |-> userId,
                 period |-> period, date |-> date,
                 mem |-> Ok(MemGetExpensesByUserIdAndPeriod(
                                expenses, userId, period, date)),
                 db |-> DbGetExpensesByUserIdAndPeriod(
                            dbExpenses, userId, period, date, tieOrder),
                 memWeek |-> IF period = "week"
                             THEN [weekStart |-> MemWeekStart(date),
                                   weekEnd |-> MemWeekEnd(date)]
                             ELSE Undefined,
                 dbWindow |-> IF period \in ValidPeriods
                              THEN DbPeriodWindow(period, date)
                              ELSE Undefined]
    /\ UNCHANGED Stores
    /\ UNCHANGED InFlight

GetCategoryTotals(userId, year, month) ==
    /\ Idle
    /\ \E tieOrder \in TieOrders :
        resp' = [op |-> "getCategoryTotals", userId |-> userId,
                 year |-> year, month |-> month,
                 mem |-> MemGetCategoryTotals(expenses, userId, year, month),
                 db |-> DbGetCategoryTotals(
                            dbExpenses, userId, year, month, tieOrder)]
    /\ UNCHANGED Stores
    /\ UNCHANGED InFlight

GetCategoryTotalsByPeriod(userId, period, date) ==
    /\ Idle
    /\ \E tieOrder \in TieOrders :
        resp' = [op |-> "getCategoryTotalsByPeriod", userId |-> userId,
                 period |-> period, date |-> date,
                 mem |-> MemGetCategoryTotalsByPeriod(
                             expenses, userId, period, date),
                 db |-> DbGetCategoryTotalsByPeriod(
                            dbExpenses, userId, period, date, tieOrder)]
    /\ UNCHANGED Stores
    /\ UNCHANGED InFlight

\* GET /api/analytics/monthly-summary?period=..&date=..
MonthlySummaryByPeriod(period, referenceDate) ==
    /\ Idle
    /\ \E tieOrder \in TieOrders :
        LET prevDate == PrevDate(period, referenceDate)
        IN  resp' =
              [op |-> "monthlySummaryByPeriod", period |-> period,
               date |-> referenceDate, prevDate |-> prevDate,
               mem |-> SummaryResponse(
                   Ok(MemGetExpensesByUserIdAndPeriod(
                          expenses, MOCK_USER_ID, period, referenceDate)),
                   Ok(MemGetExpensesByUserIdAndPeriod(
                          expenses, MOCK_USER_ID, period, prevDate))),
               db |-> SummaryResponse(
                   DbGetExpensesByUserIdAndPeriod(
                       dbExpenses, MOCK_USER_ID, period, referenceDate,
                       tieOrder),
                   DbGetExpensesByUserIdAndPeriod(
                       dbExpenses, MOCK_USER_ID, period, prevDate,
                       tieOrder))]
    /\ UNCHANGED Stores
    /\ UNCHANGED InFlight

\* GET /api/analytics/monthly-summary?year=..&month=..
MonthlySummaryByMonth(currentYear, currentMonth) ==
    /\ Idle
    /\ \E tieOrder \in TieOrders :
        LET prevMonth == PrevMonth(currentMonth)
            prevYear == PrevYear(currentYear, currentMonth)
        IN  resp' =
              [op |-> "monthlySummaryByMonth", year |-> currentYear,
               month |-> currentMonth,
               prevYear |-> prevYear, prevMonth |-> prevMonth,
               mem |-> SummaryResponse(
                   Ok(MemGetExpensesByUserIdAndMonth(
                          expenses, MOCK_USER_ID, currentYear, currentMonth)),
                   Ok(MemGetExpensesByUserIdAndMonth(
                          expenses, MOCK_USER_ID, prevYear, prevMonth))),
               db |-> SummaryResponse(
                   DbGetExpensesByUserIdAndMonth(
                       dbExpenses, MOCK_USER_ID, currentYear, currentMonth,
                       tieOrder),
                   DbGetExpensesByUserIdAndMonth(
                       dbExpenses, MOCK_USER_ID, prevYear, prevMonth,
                       tieOrder))]
    /\ UNCHANGED Stores
    /\ UNCHANGED InFlight

Next ==
    \/ \E ins \in CreateInputs : CreateExpense(ins)
    \/ \E id \in UpdateIds, upd \in UpdateInputs : UpdateExpense(id, upd)
    \/ \E id \in DeleteIds : DeleteExpense(id)
    \/ \E u \in UserIds, ym \in QueryMonths :
           GetExpensesByUserIdAndMonth(u, ym[1], ym[2])
    \/ \E u \in UserIds, p \in Periods, d \in QueryDates :
           GetExpensesByUserIdAndPeriod(u, p, d)
    \/ \E ym \in QueryMonths : GetCategoryTotals(MOCK_USER_ID, ym[1], ym[2])
    \/ \E p \in Periods, d \in QueryDates :
           GetCategoryTotalsByPeriod(MOCK_USER_ID, p, d)
    \/ \E p \in Periods, d \in QueryDates : MonthlySummaryByPeriod(p, d)
    \/ \E ym \in QueryMonths : MonthlySummaryByMonth(ym[1], ym[2])
    \/ Receive

Spec == Init /\ [][Next]_vars

(***************************************************************************)
(* The calendar runs: the listings and summaries of one user over the      *)
(* reference dates around the turns of months, on the sample expenses and  *)
(* the expenses created at the edges of windows.                           *)
(***************************************************************************)
NextCalendar ==
    \/ \E ins \in EdgeInputs : CreateExpense(ins)
    \/ \E ym \in CalendarMonths :
            GetExpensesByUserIdAndMonth(MOCK_USER_ID, ym[1], ym[2])
    \/ \E p \in ValidPeriods, d \in CalendarDates :
            GetExpensesByUserIdAndPeriod(MOCK_USER_ID, p, d)
    \/ \E p \in ValidPeriods, d \in SummaryDates :
            MonthlySummaryByPeriod(p, d)
    \/ \E ym \in CalendarMonths : MonthlySummaryByMonth(ym[1], ym[2])
    \/ Receive

SpecCalendar == Init /\ [][NextCalendar]_vars

(***************************************************************************)
(* Requests in flight.  The server takes a write request and a summary     *)
(* request while other requests are served.  The storage call of a write   *)
(* takes the store through the states of MemWriteVisible and               *)
(* DbWriteVisible, one step each; one write is under way at a time.  The    *)
(* summary handler awaits two listings.  Those of MemStorage resolve        *)
(* without leaving the handler's turn of the event loop, so both read the   *)
(* Map as it is when the request is taken; those of DatabaseStorage are     *)
(* two queries, and the table may change between them.  memSeen and dbSeen  *)
(* hold the states the stores were in while the summary was in flight.      *)
(***************************************************************************)
\* A write that stores a changed record's fields one after the other: the
\* date last.
MemWriteFieldByField(before, after) ==
    << [id \in DOMAIN after |->
           IF id \in DOMAIN before
           THEN [after[id] EXCEPT !.date = before[id].date]
           ELSE after[id]],
       after >>

\* The states of the Map a write makes visible on its way from before to
\* after: one this.expenses.set(id, ...) or this.expenses.delete(id) of the
\* whole record.
MemWriteVisible(before, after) == <<after>>

\* The states of the table a write makes visible: its one insert, update or
\* delete statement.
DbWriteVisible(before, after) == <<after>>

\* The requests of the runs with requests in flight: an expense of 2024 is
\* created, moved to 2023 with another amount, and deleted, while the
\* listings and summaries of the month and the year of construction are
\* asked for.
ConcurrentCreates ==
    { [userId |-> MOCK_USER_ID, amount |-> 5, categoryId |-> 1,
       date |-> NewDate(2024, 2, 30, 18, 0, 0, 0)] }

ConcurrentUpdates ==
    {Payload({"amount", "date"}, 0, 20, 0, LastInstantOf2023)}

ConcurrentPeriods == {"month", "year"}
ConcurrentDates == {NewDate(2024, 2, 31, 12, 0, 0, 0)}

WriteInFlight(op, id, mem, db) ==
    [op |-> op, id |-> id,
     memBefore |-> expenses, memAfter |-> mem[1],
     memSteps |-> MemWriteVisible(expenses, mem[1]),
     dbBefore |-> dbExpenses, dbAfter |-> db[1],
     dbSteps |-> DbWriteVisible(dbExpenses, db[1]),
     mem |-> mem[2], db |-> db[2]]

\* POST /api/expenses is taken: the ids are drawn.
BeginCreate(insertExpense) ==
    /\ inFlightWrite.op = "none"
    /\ currentExpenseId <= Len(SampleExpenses(<<0, 0>>)) + MaxCreates
    /\ inFlightWrite' =
           WriteInFlight("createExpense", currentExpenseId,
               MemCreateExpense(expenses, currentExpenseId, insertExpense),
               DbCreateExpense(dbExpenses, dbExpenseSeq, insertExpense))
    /\ currentExpenseId' = NextExpenseId(currentExpenseId)
    /\ dbExpenseSeq' = dbExpenseSeq + 1
    /\ UNCHANGED <<expenses, dbExpenses, resp, inFlightSummary>>

\* PUT /api/expenses/:id is taken.
BeginUpdate(id, updateData) ==
    /\ inFlightWrite.op = "none"
    /\ inFlightWrite' =
           WriteInFlight("updateExpense", id,
               MemUpdateExpense(expenses, id, updateData),
               DbUpdateExpense(dbExpenses, id, updateData))
    /\ UNCHANGED <<Stores, resp, inFlightSummary>>

\* DELETE /api/expenses/:id is taken.
BeginDelete(id) ==
    /\ inFlightWrite.op = "none"
    /\ inFlightWrite' =
           WriteInFlight("deleteExpense", id,
               MemDeleteExpense(expenses, id),
               DbDeleteExpense(dbExpenses, id))
    /\ UNCHANGED <<Stores, resp, inFlightSummary>>

\* The storage call of the write in flight makes its next state visible; the
\* request is answered after the last.
WriteStep ==
    /\ inFlightWrite.op # "none"
    /\ expenses' = Head(inFlightWrite.memSteps)
    /\ dbExpenses' = Head(inFlightWrite.dbSteps)
    /\ inFlightWrite' =
           IF Len(inFlightWrite.memSteps) = 1 /\ Len(inFlightWrite.dbSteps) = 1
           THEN [op |-> "none"]
           ELSE [inFlightWrite EXCEPT
                    !.memSteps = IF Len(@) = 1 THEN @ ELSE Tail(@),
                    !.dbSteps = IF Len(@) = 1 THEN @ ELSE Tail(@)]
    /\ inFlightSummary' =
           IF inFlightSummary.op = "none" THEN inFlightSummary
           ELSE [inFlightSummary EXCEPT
                    !.memSeen = @ \cup {expenses'},
                    !.dbSeen = @ \cup {dbExpenses'}]
    /\ UNCHANGED <<currentExpenseId, dbExpenseSeq, resp>>

\* The two listings of a summary on one state of MemStorage.
MemSummaryOn(store, q) ==
    IF q.op = "monthlySummaryByPeriod"
    THEN SummaryResponse(
             Ok(MemGetExpensesByUserIdAndPeriod(
                    store, MOCK_USER_ID, q.period, q.date)),
             Ok(MemGetExpensesByUserIdAndPeriod(
                    store, MOCK_USER_ID, q.period, q.prevDate)))
    ELSE SummaryResponse(
             Ok(MemGetExpensesByUserIdAndMonth(
                    store, MOCK_USER_ID, q.year, q.month)),
             Ok(MemGetExpensesByUserIdAndMonth(
                    store, MOCK_USER_ID, q.prevYear, q.prevMonth)))

\* The first listing of a summary from DatabaseStorage.
DbSummaryCurrent(table, q, tieOrder) ==
    IF q.op = "monthlySummaryByPeriod"
    THEN DbGetExpensesByUserIdAndPeriod(
             table, MOCK_USER_ID, q.period, q.date, tieOrder)
    ELSE DbGetExpensesByUserIdAndMonth(
             table, MOCK_USER_ID, q.year, q.month, tieOrder)

\* The second listing, that of the previous window.
DbSummaryPrevious(table, q, tieOrder) ==
    IF q.op = "monthlySummaryByPeriod"
    THEN DbGetExpensesByUserIdAndPeriod(
             table, MOCK_USER_ID, q.period, q.prevDate, tieOrder)
    ELSE DbGetExpensesByUserIdAndMonth(
             table, MOCK_USER_ID, q.prevYear, q.prevMonth, tieOrder)

\* The handler up to its second await, for the query q.
BeginSummary(q) ==
    /\ Idle
    /\ inFlightSummary.op = "none"
    /\ \E tieOrder \in TieOrders :
        inFlightSummary' =
            [op |-> q.op, q |-> q,
             mem |-> MemSummaryOn(expenses, q),
             dbCur |-> DbSummaryCurrent(dbExpenses, q, tieOrder),
             memSeen |-> {expenses}, dbSeen |-> {dbExpenses}]
    /\ UNCHANGED <<Stores, resp, inFlightWrite>>

\* GET /api/analytics/monthly-summary?period=..&date=.. is taken.
BeginSummaryByPeriod(period, referenceDate) ==
    BeginSummary([op |-> "monthlySummaryByPeriod", period |-> period,
                  date |-> referenceDate,
                  prevDate |-> PrevDate(period, referenceDate)])

\* GET /api/analytics/monthly-summary?year=..&month=.. is taken.
BeginSummaryByMonth(currentYear, currentMonth) ==
    BeginSummary([op |-> "monthlySummaryByMonth", year |-> currentYear,
                  month |-> currentMonth,
                  prevYear |-> PrevYear(currentYear, currentMonth),
                  prevMonth |-> PrevMonth(currentMonth)])

\* The second listing resolves and the handler answers.
EndSummary ==
    /\ Idle
    /\ inFlightSummary.op # "none"
    /\ \E tieOrder \in TieOrders :
        LET q == inFlightSummary.q
            mem == inFlightSummary.mem
            db == SummaryResponse(inFlightSummary.dbCur,
                      DbSummaryPrevious(dbExpenses, q, tieOrder))
        IN  resp' =
              IF q.op = "monthlySummaryByPeriod"
              THEN [op |-> q.op, period |-> q.period, date |-> q.date,
                    prevDate |-> q.prevDate, mem |-> mem, db |-> db]
              ELSE [op |-> q.op, year |-> q.year, month |-> q.month,
                    prevYear |-> q.prevYear, prevMonth |-> q.prevMonth,
                    mem |-> mem, db |-> db]
    /\ inFlightSummary' = [op |-> "none"]
    /\ UNCHANGED <<Stores, inFlightWrite>>

NextConcurrent ==
    \/ \E ins \in ConcurrentCreates : BeginCreate(ins)
    \/ \E id \in UpdateIds, upd \in ConcurrentUpdates : BeginUpdate(id, upd)
    \/ \E id \in DeleteIds : BeginDelete(id)
    \/ WriteStep
    \/ \E p \in ConcurrentPeriods, d \in ConcurrentDates :
           GetExpensesByUserIdAndPeriod(MOCK_USER_ID, p, d)
    \/ \E p \in ConcurrentPeriods, d \in ConcurrentDates :
           BeginSummaryByPeriod(p, d)
    \/ \E ym \in QueryMonths : BeginSummaryByMonth(ym[1], ym[2])
    \/ EndSummary
    \/ Receive

SpecConcurrent == Init /\ [][NextConcurrent]_vars

(***************************************************************************)
(* The windows of the specification, as the calendar days they span, and   *)
(* what a listing and a list of category totals of a window must hold.     *)
(***************************************************************************)
WindowDays(period, t) ==
    CASE period = "day" -> [first |-> t[1], last |-> t[1]]
      [] period = "week" ->
            [first |-> t[1] - WeekDay(t[1]), last |-> t[1] - WeekDay(t[1]) + 6]
      [] period = "month" ->
            [first |-> MakeDay(YearFromDay(t[1]), MonthFromDay(t[1]), 1),
             last |-> MakeDay(YearFromDay(t[1]), MonthFromDay(t[1]) + 1, 1) - 1]
      [] period = "year" ->
            [first |-> MakeDay(YearFromDay(t[1]), 0, 1),
             last |-> MakeDay(YearFromDay(t[1]) + 1, 0, 1) - 1]

MonthDays(year, month) ==
    [first |-> MakeDay(year, month - 1, 1), last |-> MakeDay(year, month, 1) - 1]

\* The ids of the stored expenses of a user dated within the days of w.
Matching(store, userId, w) ==
    {id \in DOMAIN store :
        /\ store[id].userId = userId
        /\ w.first <= store[id].date[1]
        /\ store[id].date[1] <= w.last}

IsListing(rows, store, userId, w) ==
    /\ {rows[i].id : i \in 1..Len(rows)} = Matching(store, userId, w)
    /\ Len(rows) = Cardinality(Matching(store, userId, w))
    /\ \A i \in 1..Len(rows) :
          /\ rows[i].userId = store[rows[i].id].userId
          /\ rows[i].amount = store[rows[i].id].amount
          /\ rows[i].categoryId = store[rows[i].id].categoryId
          /\ rows[i].date = store[rows[i].id].date
    /\ \A i \in 1..(Len(rows) - 1) : ~TimeLT(rows[i].date, rows[i + 1].date)

ByMonth == resp.op \in {"getExpensesByUserIdAndMonth", "getCategoryTotals"}

\* The window a listing or a list of category totals was asked for.
AskedWindow ==
    IF ByMonth THEN MonthDays(resp.year, resp.month)
    ELSE WindowDays(resp.period, resp.date)

IsListingResponse ==
    \/ resp.op = "getExpensesByUserIdAndMonth"
    \/ resp.op = "getExpensesByUserIdAndPeriod" /\ resp.period \in ValidPeriods

IsTotalsResponse ==
    \/ resp.op = "getCategoryTotals"
    \/ resp.op = "getCategoryTotalsByPeriod" /\ resp.period \in ValidPeriods

\* C1: a listing of a window holds exactly the stored expenses of the user
\* dated within the window, each once and as stored, the most recent first,
\* in MemStorage and in DatabaseStorage.
C1_ListingExactNewestFirst ==
    IsListingResponse =>
        /\ IsOk(resp.mem)
        /\ IsListing(resp.mem.value, expenses, resp.userId, AskedWindow)
        /\ IsOk(resp.db)
        /\ IsListing(resp.db.value, dbExpenses, resp.userId, AskedWindow)

\* A week listing after a create: the window holds two of the user's seven
\* expenses, and the created expense of the day before is left out.
C1_Witness ==
    /\ resp.op = "getExpensesByUserIdAndPeriod"
    /\ resp.period = "week"
    /\ resp.userId = MOCK_USER_ID
    /\ 7 \in DOMAIN expenses /\ expenses[7].userId = MOCK_USER_ID
    /\ 7 \in DOMAIN dbExpenses
    /\ Len(resp.mem.value) = 2
    /\ Len(resp.db.value) = 2

RECURSIVE SumOfAmounts(_, _)
SumOfAmounts(store, ids) ==
    IF ids = {} THEN 0
    ELSE LET id == CHOOSE x \in ids : TRUE
         IN  store[id].amount + SumOfAmounts(store, ids \ {id})

\* The hundredths nearest to a total, and whether the total is the number a
\* decimal of that many hundredths is written as.
CentsOf(x) == MathRound(FMulSmall(x, 100))
IsDecimal(x) == parseFloat(CentsOf(x)) = x

RECURSIVE SumOfTotals(_, _)
SumOfTotals(entries, n) ==
    IF n = 0 THEN 0 ELSE SumOfTotals(entries, n - 1) + CentsOf(entries[n].total)

IsCategoryTotals(result, store, userId, w) ==
    LET present == {store[id].categoryId : id \in Matching(store, userId, w)}
    IN  /\ IsOk(result)
        /\ {result.value[i].categoryId : i \in 1..Len(result.value)} = present
        /\ Len(result.value) = Cardinality(present)
        /\ \A i \in 1..Len(result.value) : IsDecimal(result.value[i].total)
        /\ SumOfTotals(result.value, Len(result.value))
               = SumOfAmounts(store, Matching(store, userId, w))

\* C2: the category totals of a window hold one entry for each category
\* with an expense in the window and none for any other, and the returned
\* totals add up, as decimals, to the sum of the amounts of the window's
\* listing.
C2_TotalsPartitionTheSum ==
    IsTotalsResponse =>
        /\ IsCategoryTotals(resp.mem, expenses, resp.userId, AskedWindow)
        /\ IsCategoryTotals(resp.db, dbExpenses, resp.userId, AskedWindow)

IsDescending(entries) ==
    \A i \in 1..(Len(entries) - 1) :
        ~FLess(entries[i].total, entries[i + 1].total)

\* C3: the category totals are sorted by total, the largest first: no
\* entry's total is less than the next entry's.
C3_TotalsDescending ==
    resp.op \in {"getCategoryTotals", "getCategoryTotalsByPeriod"} =>
        /\ IsOk(resp.mem) => IsDescending(resp.mem.value)
        /\ IsOk(resp.db) => IsDescending(resp.db.value)

\* Totals of three categories or more from both storages, the first
\* strictly above the last.
C3_Witness ==
    /\ resp.op = "getCategoryTotalsByPeriod"
    /\ IsOk(resp.mem) /\ Len(resp.mem.value) >= 3
    /\ IsOk(resp.db) /\ Len(resp.db.value) >= 3
    /\ FLess(resp.mem.value[Len(resp.mem.value)].total, resp.mem.value[1].total)
    /\ FLess(resp.db.value[Len(resp.db.value)].total, resp.db.value[1].total)

IsPeriodSummary ==
    resp.op = "monthlySummaryByPeriod" /\ resp.period \in ValidPeriods

\* C4: in period mode the previous window is the window of the same unit
\* right before the current one: its last day is the eve of the current
\* window's first day.
C4_PreviousWindowPrecedes ==
    IsPeriodSummary =>
        WindowDays(resp.period, resp.prevDate).last + 1
            = WindowDays(resp.period, resp.date).first

\* C5: in year/month mode the previous window is the month before, and
\* December of the year before for January.
C5_PreviousMonthRollsOver ==
    resp.op = "monthlySummaryByMonth" =>
        /\ resp.month \in 2..12 =>
              resp.prevYear = resp.year /\ resp.prevMonth = resp.month - 1
        /\ resp.month = 1 =>
              resp.prevYear = resp.year - 1 /\ resp.prevMonth = 12

\* The summary of a January, compared with December 2023.
C5_Witness ==
    /\ resp.op = "monthlySummaryByMonth"
    /\ resp.year = 2024 /\ resp.month = 1
    /\ resp.prevYear = 2023 /\ resp.prevMonth = 12
    /\ resp.mem.status = 200 /\ resp.db.status = 200

\* The windows a summary compared, as the days they span.
SummaryWindow ==
    IF resp.op = "monthlySummaryByMonth" THEN MonthDays(resp.year, resp.month)
    ELSE WindowDays(resp.period, resp.date)

SummaryPrevWindow ==
    IF resp.op = "monthlySummaryByMonth"
    THEN MonthDays(resp.prevYear, resp.prevMonth)
    ELSE WindowDays(resp.period, resp.prevDate)

IsSummary == resp.op = "monthlySummaryByMonth" \/ IsPeriodSummary

\* n / d in hundredths of a percent, rounded to the nearest, a half upwards,
\* for d # 0.
RoundedPercent(n, d) ==
    IF d > 0 THEN (20000 * n + d) \div (2 * d)
    ELSE (d - 20000 * n) \div (0 - 2 * d)

\* changePercent of a summary against the amounts of the store, in
\* hundredths: 0 when guard(previous total) fails, else the rounded change.
ChangeIs(changePercent, store, Guard(_)) ==
    LET total == SumOfAmounts(store, Matching(store, MOCK_USER_ID, SummaryWindow))
        prevTotal ==
            SumOfAmounts(store, Matching(store, MOCK_USER_ID, SummaryPrevWindow))
    IN  IF Guard(prevTotal)
        THEN changePercent = parseFloat(RoundedPercent(total - prevTotal, prevTotal))
        ELSE changePercent = FZero

IsPositive(x) == x > 0
IsNotZero(x) == x # 0

Between(store, userId, start, end) ==
    {id \in DOMAIN store :
        /\ store[id].userId = userId
        /\ TimeLE(start, store[id].date)
        /\ TimeLE(store[id].date, end)}

IdsOf(rows) == {rows[i].id : i \in 1..Len(rows)}

\* start is the first instant of the Sunday at or before ref, end the last
\* instant of the Saturday after it.
IsWeekOf(start, end, ref) ==
    /\ WeekDay(start[1]) = 0 /\ start[2] = 0
    /\ start[1] <= ref[1] /\ ref[1] - start[1] <= 6
    /\ WeekDay(ref[1]) = 0 => start[1] = ref[1]
    /\ end = <<start[1] + 6, MsPerDay - 1>>

\* C7: the week of a reference date runs from 00:00:00.000 of the Sunday at
\* or before it (the reference's own day when that is a Sunday) to
\* 23:59:59.999 six days later, and the week listing holds the expenses
\* dated within it.
C7_WeekFromSunday ==
    (resp.op = "getExpensesByUserIdAndPeriod" /\ resp.period = "week") =>
        /\ IsWeekOf(resp.memWeek.weekStart, resp.memWeek.weekEnd, resp.date)
        /\ IsWeekOf(resp.dbWindow.startDate, resp.dbWindow.endDate, resp.date)
        /\ IdsOf(resp.mem.value)
               = Between(expenses, resp.userId, resp.memWeek.weekStart,
                         resp.memWeek.weekEnd)
        /\ IdsOf(resp.db.value)
               = Between(dbExpenses, resp.userId, resp.dbWindow.startDate,
                         resp.dbWindow.endDate)

\* The week of the last instant of Sunday 2023-12-31, which ends in 2024,
\* with an expense dated at that instant in it.
C7_Witness ==
    /\ resp.op = "getExpensesByUserIdAndPeriod" /\ resp.period = "week"
    /\ resp.date = NewDate(2023, 11, 31, 23, 59, 59, 999)
    /\ resp.memWeek.weekStart = NewDate(2023, 11, 31, 0, 0, 0, 0)
    /\ resp.dbWindow.endDate = NewDate(2024, 0, 6, 23, 59, 59, 999)
    /\ Len(resp.mem.value) = 1 /\ Len(resp.db.value) = 1
    /\ resp.mem.value[1].date = resp.date

\* The days of month m (0 for January) of year y.
DaysInMonth(y, m) ==
    IF m = 1 THEN (IF IsLeapYear(y) THEN 29 ELSE 28)
    ELSE IF m \in {3, 5, 8, 10} THEN 30
    ELSE 31

\* w runs from 00:00:00.000 of day 1 to 23:59:59.999 of the last day of
\* month m of year y.
IsMonthOf(w, y, m) ==
    /\ YearFromDay(w.startDate[1]) = y /\ MonthFromDay(w.startDate[1]) = m
    /\ DateFromDay(w.startDate[1]) = 1 /\ w.startDate[2] = 0
    /\ YearFromDay(w.endDate[1]) = y /\ MonthFromDay(w.endDate[1]) = m
    /\ DateFromDay(w.endDate[1]) = DaysInMonth(y, m)
    /\ w.endDate[2] = MsPerDay - 1

IsMonthListing ==
    \/ resp.op = "getExpensesByUserIdAndMonth"
    \/ resp.op = "getExpensesByUserIdAndPeriod" /\ resp.period = "month"

\* C8: the month window of a reference date, or of a year and month, runs
\* from 00:00:00.000 of day 1 to 23:59:59.999 of the month's last day (the
\* 29th in February of a leap year), and the month listing holds the
\* expenses dated within it.
C8_MonthFirstToLastDay ==
    IsMonthListing =>
        /\ IF resp.op = "getExpensesByUserIdAndMonth"
           THEN IsMonthOf(resp.dbWindow, resp.year, resp.month - 1)
           ELSE IsMonthOf(resp.dbWindow, YearFromDay(resp.date[1]),
                          MonthFromDay(resp.date[1]))
        /\ IdsOf(resp.mem.value)
               = Between(expenses, resp.userId, resp.dbWindow.startDate,
                         resp.dbWindow.endDate)
        /\ IdsOf(resp.db.value)
               = Between(dbExpenses, resp.userId, resp.dbWindow.startDate,
                         resp.dbWindow.endDate)

\* The month of a date in February 2024, which ends on the 29th, with an
\* expense dated at its last instant in it.
C8_Witness ==
    /\ resp.op = "getExpensesByUserIdAndPeriod" /\ resp.period = "month"
    /\ resp.dbWindow.startDate = NewDate(2024, 1, 1, 0, 0, 0, 0)
    /\ resp.dbWindow.endDate = NewDate(2024, 1, 29, 23, 59, 59, 999)
    /\ Len(resp.mem.value) = 1 /\ Len(resp.db.value) = 1
    /\ resp.mem.value[1].date = resp.dbWindow.endDate

\* C9: a period that is none of day, week, month and year is rejected: the
\* listing and the category totals throw, and the summary answers with a
\* client error.
C9_InvalidPeriodRejected ==
    /\ (/\ resp.op \in {"getExpensesByUserIdAndPeriod",
                        "getCategoryTotalsByPeriod"}
        /\ resp.period \notin ValidPeriods)
           => resp.mem = Thrown /\ resp.db = Thrown
    /\ (resp.op = "monthlySummaryByPeriod" /\ resp.period \notin ValidPeriods)
           => resp.mem.status \in 400..499 /\ resp.db.status \in 400..499

\* C10: an update or a delete of an id that is not in the store returns
\* undefined, respectively false, without an error, and leaves the expenses
\* and the id counter as they were, in both storages.
C10_UnknownIdIsNoOp ==
    [][ (resp'.op \in {"updateExpense", "deleteExpense"} /\ resp.op = "none") =>
          /\ resp'.id \notin DOMAIN expenses =>
                /\ resp'.mem = IF resp'.op = "updateExpense" THEN Undefined
                               ELSE FALSE
                /\ expenses' = expenses
                /\ currentExpenseId' = currentExpenseId
          /\ resp'.id \notin DOMAIN dbExpenses =>
                /\ resp'.db = IF resp'.op = "updateExpense" THEN Undefined
                              ELSE FALSE
                /\ dbExpenses' = dbExpenses
                /\ dbExpenseSeq' = dbExpenseSeq ]_vars

\* Whether every expense of a store names a category that exists.
CategoriesResolve(store) ==
    \A id \in DOMAIN store : store[id].categoryId \in DOMAIN categories

\* C11: in every state that creates, updates and deletes lead to, every
\* stored expense's categoryId is the id of an existing category, in
\* MemStorage and in DatabaseStorage.
C11_CategoryResolves ==
    CategoriesResolve(expenses) /\ CategoriesResolve(dbExpenses)

IsDeleteOf(id) == resp.op = "deleteExpense" /\ resp.id = id

\* Whether the outcome r of the last read, made on store, is that of the
\* store's expenses other than id: a listing has no row of that id, category
\* totals add up to the amounts of the others, and a summary counts and adds
\* up the others.
Excludes(r, store, id) ==
    /\ (/\ resp.op \in {"getExpensesByUserIdAndMonth",
                        "getExpensesByUserIdAndPeriod"}
        /\ IsOk(r)) => id \notin IdsOf(r.value)
    /\ (IsTotalsResponse /\ IsOk(r)) =>
          SumOfTotals(r.value, Len(r.value))
              = SumOfAmounts(store,
                    Matching(store, resp.userId, AskedWindow) \ {id})
    /\ (IsSummary /\ r.status = 200) =>
          /\ r.expenseCount
                 = Cardinality(
                       Matching(store, MOCK_USER_ID, SummaryWindow) \ {id})
          /\ CentsOf(r.total)
                 = SumOfAmounts(store,
                       Matching(store, MOCK_USER_ID, SummaryWindow) \ {id})

MemGone(id) == id \notin DOMAIN expenses /\ Excludes(resp.mem, expenses, id)
DbGone(id) == id \notin DOMAIN dbExpenses /\ Excludes(resp.db, dbExpenses, id)

\* C12: once deleteExpense(id) has reported the expense deleted, the expense
\* is absent from the store for good, no later listing, category totals or
\* summary returns it, whatever calls follow, and every later deleteExpense(id)
\* reports false; in MemStorage and in DatabaseStorage.
C12_DeleteIsFinal ==
    \A id \in DeleteIds :
        /\ [](IsDeleteOf(id) /\ resp.mem = TRUE =>
                [](/\ MemGone(id)
                   /\ Idle => [](IsDeleteOf(id) => resp.mem = FALSE)))
        /\ [](IsDeleteOf(id) /\ resp.db = TRUE =>
                [](/\ DbGone(id)
                   /\ Idle => [](IsDeleteOf(id) => resp.db = FALSE)))

\* The listing of the day of construction after expense 2 of that day was
\* deleted: expense 1 alone.
C12_Witness ==
    /\ resp.op = "getExpensesByUserIdAndPeriod" /\ resp.period = "day"
    /\ resp.userId = MOCK_USER_ID
    /\ 2 \notin DOMAIN expenses /\ 2 \notin DOMAIN dbExpenses
    /\ IdsOf(resp.mem.value) = {1} /\ IdsOf(resp.db.value) = {1}

\* The stored fields of a listing's row.
Core(row) ==
    [id |-> row.id, userId |-> row.userId, amount |-> row.amount,
     categoryId |-> row.categoryId, date |-> row.date]

\* Whether each row is, whole, the record of its id before or after the
\* write.
WholeRecords(rows, before, after) ==
    \A i \in 1..Len(rows) :
        \/ rows[i].id \in DOMAIN before /\ Core(rows[i]) = before[rows[i].id]
        \/ rows[i].id \in DOMAIN after /\ Core(rows[i]) = after[rows[i].id]

\* The store before and after the write in flight; the store itself when
\* there is none.
MemBefore ==
    IF inFlightWrite.op = "none" THEN expenses ELSE inFlightWrite.memBefore
MemAfter ==
    IF inFlightWrite.op = "none" THEN expenses ELSE inFlightWrite.memAfter
DbBefore ==
    IF inFlightWrite.op = "none" THEN dbExpenses ELSE inFlightWrite.dbBefore
DbAfter ==
    IF inFlightWrite.op = "none" THEN dbExpenses ELSE inFlightWrite.dbAfter

\* C13: whenever a listing is read, by a listing request or by a summary,
\* with or without a write in flight, every row it returns is a record
\* entirely as it was before the write or entirely as it is after it, never
\* a mix of old and new fields.
C13_ReadersSeeWholeRecords ==
    [][ /\ (resp.op = "none" /\ resp'.op = "getExpensesByUserIdAndPeriod") =>
              /\ WholeRecords(resp'.mem.value, MemBefore, MemAfter)
              /\ WholeRecords(resp'.db.value, DbBefore, DbAfter)
        /\ (inFlightSummary.op = "none" /\ inFlightSummary'.op # "none") =>
              WholeRecords(inFlightSummary'.dbCur.value, DbBefore, DbAfter)
      ]_vars

\* A summary in flight whose first listing read expense 7 as it was before
\* an update that has since moved it: the write ran between the summary's
\* two listings.
C13_Witness ==
    /\ inFlightSummary.op # "none"
    /\ inFlightWrite.op = "none"
    /\ 7 \in DOMAIN dbExpenses
    /\ \E i \in 1..Len(inFlightSummary.dbCur.value) :
          /\ inFlightSummary.dbCur.value[i].id = 7
          /\ Core(inFlightSummary.dbCur.value[i]) # dbExpenses[7]

\* Whether two summaries answer the same total, expenseCount and
\* changePercent.
SameSummary(r, s) ==
    /\ r.status = s.status
    /\ r.status = 200 =>
          /\ r.total = s.total
          /\ r.expenseCount = s.expenseCount
          /\ r.changePercent = s.changePercent

\* The summary DatabaseStorage gives when both listings read one state of
\* the table.
DbSummaryOn(table, q, tieOrder) ==
    SummaryResponse(DbSummaryCurrent(table, q, tieOrder),
                    DbSummaryPrevious(table, q, tieOrder))

\* C14: the total, expenseCount and changePercent a summary answers are those
\* of one state the store was in while the request was served: both listings
\* read the same state, whatever writes run meanwhile.
C14_SummaryOfOneSnapshot ==
    [][ (inFlightSummary.op # "none" /\ inFlightSummary'.op = "none") =>
          /\ \E store \in inFlightSummary.memSeen :
                SameSummary(resp'.mem,
                            MemSummaryOn(store, inFlightSummary.q))
          /\ \E table \in inFlightSummary.dbSeen, tieOrder \in TieOrders :
                SameSummary(resp'.db,
                            DbSummaryOn(table, inFlightSummary.q, tieOrder))
      ]_vars

\* C15: MemStorage and DatabaseStorage, started alike and given the same
\* calls, answer every listing and every category totals query alike (the
\* same records in the same order, the same outcome for a period that is
\* not recognized) and every update alike.
C15_BackendsAgree ==
    resp.op \in {"getExpensesByUserIdAndMonth", "getExpensesByUserIdAndPeriod",
                 "getCategoryTotals", "getCategoryTotalsByPeriod",
                 "updateExpense"}
        => resp.mem = resp.db

\* C16: in MemStorage every expense is stored under its own id, below the
\* next-id counter (so all ids differ); the counter never goes back, and an
\* expense that enters the Map does so under the counter's value, an id
\* that no expense, deleted or not, was given before.
C16_IdsAreKeysAndFresh ==
    /\ [](\A id \in DOMAIN expenses :
             expenses[id].id = id /\ id < currentExpenseId)
    /\ [][ /\ currentExpenseId' >= currentExpenseId
           /\ \A id \in DOMAIN expenses' \ DOMAIN expenses :
                 id = currentExpenseId /\ id < currentExpenseId' ]_vars

\* An expense created after expense 2 was deleted: it is given id 7.
C16_Witness ==
    /\ resp.op = "createExpense"
    /\ resp.mem.value.id = 7
    /\ 7 \in DOMAIN expenses /\ 2 \notin DOMAIN expenses
    /\ currentExpenseId = 8

====
